---- MODULE Spec2Model ----
(***************************************************************************)
(* A model of the conversation handlers of pgwire (src/api/query.rs) and   *)
(* of the response model and row encoder (src/api/results.rs).             *)
(*                                                                         *)
(* Every connection owns a statement store, a portal store, a connection   *)
(* state and an outbound channel (a Sink: messages are fed into a buffer   *)
(* and reach the frontend when the buffer is flushed).  A handler is an    *)
(* async fn: it is modelled as a start step (the code up to the first      *)
(* await), the return of the embedder's do_query callback, and one step    *)
(* per poll of the outbound channel.                                       *)
(***************************************************************************)
EXTENDS Integers, Sequences, FiniteSets, TLC

VARIABLES
    state,         \* connection -> PgWireConnectionState
    stmt_store,    \* connection -> statement store (a set of entries)
    portal_store,  \* connection -> portal store (a set of entries)
    sink_buf,        \* connection -> messages fed to the Sink, not yet flushed
    wire,          \* connection -> messages delivered to the frontend since it
                   \* sent the message being (or last) handled
    pc,            \* connection -> position of the handler in flight
    cur,           \* connection -> the frontend message being (or last) handled
    portal,        \* connection -> the portal snapshot held by on_execute
    resp,          \* connection -> the QueryResponse the callback returned
    ops,           \* connection -> the Sink operations the handler still awaits
    result,        \* connection -> what the last handler returned
    sent,          \* history: messages fed by the handler in flight (or last)
    described,     \* history: portals described (target 'P') since their Bind
    replaced,      \* history: Option, the statement replaced by the Parse
                   \* being (or last) handled
    nmsgs,         \* history: number of frontend messages handled
    broken,        \* connection -> the outbound channel has failed (for good)
    nrowdesc,      \* history: number of Executes that have sent a RowDescription
    tag,           \* Option: the Tag last constructed (results.rs)
    tag_call,      \* history: the constructor call that made tag
    complete,      \* Option: the text of the CommandComplete made from tag
    encoder,       \* the DataRowEncoder: buffer, field_buffer, schema, col_index
    enc_pc,        \* "open", "finished" (finish consumed it) or "panicked"
    row,           \* Option: the DataRow finish returned
    calls,         \* history: the encode calls made, with their outcome
    fmt_in,        \* Option: the FieldFormat given to value()
    fmt_code,      \* Option: the i16 format code at hand
    fmt_out,       \* Option: the FieldFormat returned by FieldFormat::from
    arc_heap,      \* address -> Option: the Portal an Arc allocation holds
    arc_store,     \* a portal store whose entries hold addresses (Arc<Portal>)
    arc_held,      \* Option: the address another holder got from the store
    arc_seen,      \* history: Option, the Portal that holder saw when it got it
    arc_call       \* history: the last operation on arc_store, with what it saw

conn_vars == <<state, stmt_store, portal_store, sink_buf, wire, pc, cur, portal,
               resp, ops, result, sent, described, replaced, nmsgs, broken,
               nrowdesc>>
tag_vars == <<tag, tag_call, complete>>
enc_vars == <<encoder, enc_pc, row, calls>>
fmt_vars == <<fmt_in, fmt_code, fmt_out>>
arc_vars == <<arc_heap, arc_store, arc_held, arc_seen, arc_call>>
vars == <<conn_vars, tag_vars, enc_vars, fmt_vars, arc_vars>>

(***************************************************************************)
(* Bounds of the model.                                                    *)
(***************************************************************************)
NConns == 2
MaxMsgs == 4
MaxRows == 2
MaxTagRows == 120
MaxCols == 3
MaxBuffered == 2
MaxArcs == 3
MaxShared == 3
MaxRepeat == 5

Conns == 1..NConns
UserNames == {"a"}
Queries == {"q1", "q2"}
SimpleQueries == {"q1"}
RowVals == {"r1", "r2"}

(***************************************************************************)
(* Option<T>: None is <<>>, Some(x) is <<x>>.                              *)
(***************************************************************************)
None == <<>>
Some(x) == <<x>>
OptNames == {None} \cup {Some(n) : n \in UserNames}

(***************************************************************************)
(* Constants of the protocol.                                              *)
(***************************************************************************)
DEFAULT_NAME == "POSTGRESQL_DEFAULT_NAME"
TARGET_TYPE_BYTE_STATEMENT == "S"
TARGET_TYPE_BYTE_PORTAL == "P"
READY_STATUS_IDLE == "I"
DescribeTargets == {TARGET_TYPE_BYTE_STATEMENT, TARGET_TYPE_BYTE_PORTAL}
TargetTypes == DescribeTargets \cup {"X"}

Names == UserNames \cup {DEFAULT_NAME}

\* message.name().as_ref().map_or(DEFAULT_NAME, String::as_str)
map_or_default(name) == IF name = None THEN DEFAULT_NAME ELSE name[1]

(***************************************************************************)
(* Backend messages.                                                       *)
(***************************************************************************)
RowDescription == <<"RowDescription">>
DataRow(r) == <<"DataRow", r>>
CommandComplete == <<"CommandComplete">>
ErrorResponse == <<"ErrorResponse">>
ReadyForQuery(status) == <<"ReadyForQuery", status>>
\* a message the embedder's callback writes itself
NoticeResponse(n) == <<"NoticeResponse", n>>
Notices == {"n1", "n2"}

(***************************************************************************)
(* QueryResponse (query.rs): Data(head, rows, tail), Empty(tail),          *)
(* Error(e).                                                               *)
(***************************************************************************)
RECURSIVE SeqsUpTo(_, _)
SeqsUpTo(S, n) ==
    IF n = 0 THEN {<<>>}
    ELSE LET shorter == SeqsUpTo(S, n - 1)
         IN  shorter \cup {Append(s, x) : s \in shorter, x \in S}

Data(rows) == <<"Data", rows>>
Empty == <<"Empty">>
Error == <<"Error">>
QueryResponse == {Data(rows) : rows \in SeqsUpTo(RowVals, MaxRows)} \cup {Empty, Error}
\* one response of each kind, for the conversations with many steps
SharedResponses == {Data(<<"r1">>), Empty, Error}

(***************************************************************************)
(* PgWireResult<()> of a handler.                                          *)
(***************************************************************************)
Ok == <<"Ok">>
Pending == <<"Pending">>
PortalNotFound(name) == <<"PortalNotFound", name>>
StatementNotFound(name) == <<"StatementNotFound", name>>
ApiError == <<"ApiError">>
IoError == <<"IoError">>

(***************************************************************************)
(* The named resource store: a set of entries [name, value], at most one   *)
(* per name.                                                               *)
(***************************************************************************)
put(store, name, value) ==
    {e \in store : e.name # name} \cup {[name |-> name, value |-> value]}

get(store, name) ==
    IF \E e \in store : e.name = name
    THEN Some((CHOOSE e \in store : e.name = name).value)
    ELSE None

del(store, name) == {e \in store : e.name # name}

(***************************************************************************)
(* Statement and Portal.                                                   *)
(***************************************************************************)
\* Statement::from(&Parse)
StatementFrom(message) ==
    [id |-> map_or_default(message.name), statement |-> message.query]

\* Portal::try_new(&Bind, client): Some(portal), or None when the statement
\* is not in the statement store.
PortalTryNew(message, stmts) ==
    LET found == get(stmts, map_or_default(message.statement_name))
    IN  IF found = None THEN None
        ELSE Some([name |-> map_or_default(message.portal_name),
                   statement |-> found[1],
                   row_description_requested |-> FALSE])

set_row_description_requested(p, v) ==
    [p EXCEPT !.row_description_requested = v]

(***************************************************************************)
(* The Sink operations a handler awaits, in order.                         *)
(***************************************************************************)
Feed(m) == <<"feed", m>>
Flush == <<"flush">>

RECURSIVE FeedAll(_)
FeedAll(msgs) ==
    IF msgs = <<>> THEN <<>> ELSE <<Feed(Head(msgs))>> \o FeedAll(Tail(msgs))

\* client.send(m): feed, then flush
send(m) == <<Feed(m), Flush>>

\* client.send_all(stream): feed every item, then flush
send_all(msgs) == FeedAll(msgs) \o <<Flush>>

RECURSIVE MapDataRow(_)
MapDataRow(rows) ==
    IF rows = <<>> THEN <<>> ELSE <<DataRow(Head(rows))>> \o MapDataRow(Tail(rows))

\* on_query with the completion chained before the rows
on_query_reply_tail_first(r) ==
    IF r[1] = "Data"
    THEN send_all(<<RowDescription, CommandComplete>> \o MapDataRow(r[2])
                  \o <<ReadyForQuery(READY_STATUS_IDLE)>>)
    ELSE IF r[1] = "Empty"
    THEN <<Feed(CommandComplete), Feed(ReadyForQuery(READY_STATUS_IDLE)), Flush>>
    ELSE <<Feed(ErrorResponse), Feed(ReadyForQuery(READY_STATUS_IDLE)), Flush>>

\* on_query that ends the Error arm after the ErrorResponse
on_query_reply_error_only(r) ==
    IF r[1] = "Data"
    THEN send_all(<<RowDescription>> \o MapDataRow(r[2])
                  \o <<CommandComplete, ReadyForQuery(READY_STATUS_IDLE)>>)
    ELSE IF r[1] = "Empty"
    THEN <<Feed(CommandComplete), Feed(ReadyForQuery(READY_STATUS_IDLE)), Flush>>
    ELSE <<Feed(ErrorResponse), Flush>>

\* on_query that feeds ReadyForQuery before the completion of an Empty response
on_query_reply_ready_first(r) ==
    IF r[1] = "Data"
    THEN send_all(<<RowDescription>> \o MapDataRow(r[2])
                  \o <<CommandComplete, ReadyForQuery(READY_STATUS_IDLE)>>)
    ELSE IF r[1] = "Empty"
    THEN <<Feed(ReadyForQuery(READY_STATUS_IDLE)), Feed(CommandComplete), Flush>>
    ELSE <<Feed(ErrorResponse), Feed(ReadyForQuery(READY_STATUS_IDLE)), Flush>>

\* on_query, the match on the response
on_query_reply(r) ==
    IF r[1] = "Data"
    THEN send_all(<<RowDescription>> \o MapDataRow(r[2])
                  \o <<CommandComplete, ReadyForQuery(READY_STATUS_IDLE)>>)
    ELSE IF r[1] = "Empty"
    THEN <<Feed(CommandComplete), Feed(ReadyForQuery(READY_STATUS_IDLE)), Flush>>
    ELSE <<Feed(ErrorResponse), Feed(ReadyForQuery(READY_STATUS_IDLE)), Flush>>

\* on_execute closing the cycle itself, as on_query does
on_execute_reply_ready(p, r) ==
    (IF r[1] = "Data"
     THEN (IF p.row_description_requested THEN send(RowDescription) ELSE <<>>)
          \o (IF r[2] # <<>> THEN send_all(MapDataRow(r[2])) ELSE <<>>)
          \o send(CommandComplete)
     ELSE IF r[1] = "Empty"
     THEN send(CommandComplete)
     ELSE send(ErrorResponse))
    \o send(ReadyForQuery(READY_STATUS_IDLE))

\* on_execute, the match on the response
on_execute_reply(p, r) ==
    IF r[1] = "Data"
    THEN (IF p.row_description_requested THEN send(RowDescription) ELSE <<>>)
         \o (IF r[2] # <<>> THEN send_all(MapDataRow(r[2])) ELSE <<>>)
         \o send(CommandComplete)
    ELSE IF r[1] = "Empty"
    THEN send(CommandComplete)
    ELSE send(ErrorResponse)

(***************************************************************************)
(* Frontend messages.                                                      *)
(***************************************************************************)
NoMsg == [type |-> "None"]
Query(q) == [type |-> "Query", query |-> q]
Parse(n, q) == [type |-> "Parse", name |-> n, query |-> q]
Bind(p, s) == [type |-> "Bind", portal_name |-> p, statement_name |-> s]
Execute(n) == [type |-> "Execute", name |-> n]
Describe(t, n) == [type |-> "Describe", target_type |-> t, name |-> n]
PgSync == [type |-> "Sync"]
Close(t, n) == [type |-> "Close", target_type |-> t, name |-> n]

(***************************************************************************)
(* The initial state: connections past startup, empty stores.              *)
(***************************************************************************)
ConnInit ==
    /\ state = [c \in Conns |-> "ReadyForQuery"]
    /\ stmt_store = [c \in Conns |-> {}]
    /\ portal_store = [c \in Conns |-> {}]
    /\ sink_buf = [c \in Conns |-> <<>>]
    /\ wire = [c \in Conns |-> <<>>]
    /\ pc = [c \in Conns |-> "ready"]
    /\ cur = [c \in Conns |-> NoMsg]
    /\ portal = [c \in Conns |-> None]
    /\ resp = [c \in Conns |-> None]
    /\ ops = [c \in Conns |-> <<>>]
    /\ result = [c \in Conns |-> Pending]
    /\ sent = [c \in Conns |-> <<>>]
    /\ described = [c \in Conns |-> {}]
    /\ replaced = [c \in Conns |-> None]
    /\ nmsgs = [c \in Conns |-> 0]
    /\ broken = [c \in Conns |-> FALSE]
    /\ nrowdesc = [c \in Conns |-> 0]


\* every handler of every connection working on the first connection's client
client_of_first(c) == 1

\* the client a handler is given: the one of the connection it runs for
client(c) == c

\* a frontend message can be taken: no handler in flight on the connection
CanHandle(c) == pc[c] = "ready"

\* what every handler start does to the bookkeeping
Begin(c, message) ==
    /\ cur' = [cur EXCEPT ![c] = message]
    /\ nmsgs' = [nmsgs EXCEPT ![c] = @ + 1]
    /\ sent' = [sent EXCEPT ![c] = <<>>]
    /\ resp' = [resp EXCEPT ![c] = None]
    /\ wire' = [wire EXCEPT ![c] = <<>>]
    /\ replaced' = [replaced EXCEPT
                        ![c] = IF message.type = "Parse"
                               THEN get(stmt_store[c], map_or_default(message.name))
                               ELSE None]
    /\ UNCHANGED <<broken, nrowdesc, tag_vars, enc_vars, fmt_vars, arc_vars>>

\* a handler that returns without awaiting anything
Return(c, r) ==
    /\ result' = [result EXCEPT ![c] = r]
    /\ UNCHANGED <<pc, ops, sink_buf, state>>

(***************************************************************************)
(* SimpleQueryHandler::on_query, up to the await of do_query.              *)
(***************************************************************************)
on_query(c, message) ==
    /\ CanHandle(c)
    /\ Begin(c, message)
    /\ state' = [state EXCEPT ![c] = "QueryInProgress"]
    /\ pc' = [pc EXCEPT ![c] = "do_query"]
    /\ result' = [result EXCEPT ![c] = Pending]
    /\ UNCHANGED <<stmt_store, portal_store, sink_buf, portal, ops, described>>

(***************************************************************************)
(* ExtendedQueryHandler                                                    *)
(***************************************************************************)
\* on_parse keeping a statement already stored under the id
put_statement_if_absent(store, message) ==
    LET stmt == StatementFrom(message)
    IN  IF get(store, stmt.id) = None THEN put(store, stmt.id, stmt) ELSE store

\* on_parse: the statement is put under its id
put_statement(store, message) ==
    LET stmt == StatementFrom(message)
    IN  put(store, stmt.id, stmt)

on_parse(c, message) ==
    /\ CanHandle(c)
    /\ Begin(c, message)
    /\ stmt_store' = [stmt_store EXCEPT ![client(c)] = put_statement(@, message)]
    /\ Return(c, Ok)
    /\ UNCHANGED <<portal_store, portal, described>>

\* on_bind keeping a portal already stored under the name
put_portal_if_absent(store, p) ==
    IF get(store, p.name) = None THEN put(store, p.name, p) ELSE store

\* on_bind: the portal is put under its name
put_portal(store, p) == put(store, p.name, p)

on_bind(c, message) ==
    /\ CanHandle(c)
    /\ Begin(c, message)
    /\ LET new == PortalTryNew(message, stmt_store[client(c)])
       IN  IF new = None
           THEN /\ Return(c, StatementNotFound(map_or_default(message.statement_name)))
                /\ UNCHANGED <<portal_store, described>>
           ELSE /\ portal_store' = [portal_store EXCEPT ![client(c)] = put_portal(@, new[1])]
                /\ described' = [described EXCEPT ![c] = @ \ {new[1].name}]
                /\ Return(c, Ok)
    /\ UNCHANGED <<stmt_store, portal>>

\* on_execute falling back on the unnamed portal
get_portal_or_unnamed(store, message) ==
    IF get(store, map_or_default(message.name)) = None
    THEN get(store, DEFAULT_NAME)
    ELSE get(store, map_or_default(message.name))

\* on_execute: store.get(portal_name)
get_portal(store, message) == get(store, map_or_default(message.name))

\* on_execute removing the portal it has found
store_after_execute_removed(store, portal_name) == del(store, portal_name)

\* the portal store as on_execute leaves it: it holds `store` by shared
\* reference and writes nothing
store_after_execute(store, portal_name) == store

\* up to the await of do_query
on_execute(c, message) ==
    /\ CanHandle(c)
    /\ Begin(c, message)
    /\ LET portal_name == map_or_default(message.name)
           found == get_portal(portal_store[client(c)], message)
       IN  IF found # None
           THEN /\ portal' = [portal EXCEPT ![c] = found]
                /\ pc' = [pc EXCEPT ![c] = "do_query"]
                /\ result' = [result EXCEPT ![c] = Pending]
                /\ UNCHANGED <<ops, sink_buf, state>>
           ELSE /\ Return(c, PortalNotFound(portal_name))
                /\ UNCHANGED portal
    /\ portal_store' = [portal_store EXCEPT
                            ![client(c)] = store_after_execute(@, map_or_default(message.name))]
    /\ UNCHANGED <<stmt_store, described>>

on_describe(c, message) ==
    /\ CanHandle(c)
    /\ Begin(c, message)
    /\ LET portal_name == map_or_default(message.name)
           found == get(portal_store[client(c)], portal_name)
       IN  IF found # None
           THEN /\ portal_store' =
                       [portal_store EXCEPT
                           ![c] = put(@, portal_name,
                                      set_row_description_requested(found[1], TRUE))]
                /\ described' =
                       [described EXCEPT
                           ![c] = IF message.target_type = TARGET_TYPE_BYTE_PORTAL
                                  THEN @ \cup {portal_name} ELSE @]
                /\ Return(c, Ok)
           ELSE /\ Return(c, PortalNotFound(portal_name))
                /\ UNCHANGED <<portal_store, described>>
    /\ UNCHANGED <<stmt_store, portal>>

\* up to the await of flush
on_sync(c, message) ==
    /\ CanHandle(c)
    /\ Begin(c, message)
    /\ ops' = [ops EXCEPT ![c] = <<Flush>>]
    /\ pc' = [pc EXCEPT ![c] = "sink"]
    /\ result' = [result EXCEPT ![c] = Pending]
    /\ UNCHANGED <<stmt_store, portal_store, sink_buf, state, portal, described>>

\* on_close deleting the statement whatever the target type
close_statement_any_target(store, message) ==
    del(store, map_or_default(message.name))

\* on_close: what the match on the target type does to each store
close_statement(store, message) ==
    IF message.target_type = TARGET_TYPE_BYTE_STATEMENT
    THEN del(store, map_or_default(message.name))
    ELSE store

close_portal(store, message) ==
    IF message.target_type = TARGET_TYPE_BYTE_PORTAL
    THEN del(store, map_or_default(message.name))
    ELSE store

on_close(c, message) ==
    /\ CanHandle(c)
    /\ Begin(c, message)
    /\ stmt_store' = [stmt_store EXCEPT ![client(c)] = close_statement(@, message)]
    /\ portal_store' = [portal_store EXCEPT ![client(c)] = close_portal(@, message)]
    /\ Return(c, Ok)
    /\ UNCHANGED <<portal, described>>

(***************************************************************************)
(* The embedder's do_query callback returns: a QueryResponse, or a failure *)
(* that the handler propagates with `?`.                                   *)
(***************************************************************************)
do_query(c, r) ==
    /\ pc[c] = "do_query"
    /\ resp' = [resp EXCEPT ![c] = Some(r)]
    /\ ops' = [ops EXCEPT ![c] = IF cur[c].type = "Query"
                                 THEN on_query_reply(r)
                                 ELSE on_execute_reply(portal[c][1], r)]
    /\ pc' = [pc EXCEPT ![c] = "sink"]
    /\ UNCHANGED <<state, stmt_store, portal_store, sink_buf, wire, cur, portal,
                   result, sent, described, replaced, nmsgs, broken, nrowdesc,
                   tag_vars, enc_vars, fmt_vars, arc_vars>>

\* a failing callback after which on_query puts the state back
do_query_err_ready(c) ==
    /\ pc[c] = "do_query"
    /\ pc' = [pc EXCEPT ![c] = "ready"]
    /\ result' = [result EXCEPT ![c] = ApiError]
    /\ portal' = [portal EXCEPT ![c] = None]
    /\ state' = [state EXCEPT ![c] = "ReadyForQuery"]
    /\ UNCHANGED <<stmt_store, portal_store, sink_buf, wire, cur, resp,
                   ops, sent, described, replaced, nmsgs, broken, nrowdesc,
                   tag_vars, enc_vars, fmt_vars, arc_vars>>

do_query_err(c) ==
    /\ pc[c] = "do_query"
    /\ pc' = [pc EXCEPT ![c] = "ready"]
    /\ result' = [result EXCEPT ![c] = ApiError]
    /\ portal' = [portal EXCEPT ![c] = None]
    /\ UNCHANGED <<state, stmt_store, portal_store, sink_buf, wire, cur, resp,
                   ops, sent, described, replaced, nmsgs, broken, nrowdesc,
                   tag_vars, enc_vars, fmt_vars, arc_vars>>

\* the callback of on_execute holds `client: &mut C`, a Sink: it may feed a
\* message of its own, which stays buffered until something flushes
do_query_notice(c, n) ==
    /\ pc[c] = "do_query"
    /\ cur[c].type = "Execute"
    /\ ~broken[c]
    /\ Len(sink_buf[c]) < MaxBuffered
    /\ sink_buf' = [sink_buf EXCEPT ![c] = Append(@, NoticeResponse(n))]
    /\ UNCHANGED <<state, stmt_store, portal_store, wire, pc, cur, portal, resp,
                   ops, result, sent, described, replaced, nmsgs, broken,
                   nrowdesc, tag_vars, enc_vars, fmt_vars, arc_vars>>

(***************************************************************************)
(* One awaited Sink operation completes.  After the last one the handler   *)
(* runs to its end: on_query sets the state and every handler returns Ok.  *)
(***************************************************************************)
\* a flush that hands the buffered messages over newest first
delivered_newest_first(w, buf) == w \o [i \in 1..Len(buf) |-> buf[Len(buf) + 1 - i]]

\* flush: the buffered messages reach the frontend, in the order they were fed
delivered(w, buf) == w \o buf

\* on_query returning without the second set_state
state_after_unset(message, s) == s

\* the state the handler of `message` leaves when all its writes are done
state_after(message, s) == IF message.type = "Query" THEN "ReadyForQuery" ELSE s

poll_sink(c) ==
    /\ pc[c] = "sink"
    /\ ~broken[c]
    /\ LET op == Head(ops[c])
           rest == Tail(ops[c])
       IN  /\ IF op[1] = "feed"
              THEN /\ sink_buf' = [sink_buf EXCEPT ![c] = Append(@, op[2])]
                   /\ sent' = [sent EXCEPT ![c] = Append(@, op[2])]
                   /\ nrowdesc' =
                          [nrowdesc EXCEPT
                              ![c] = IF cur[c].type = "Execute" /\ op[2] = RowDescription
                                     THEN @ + 1 ELSE @]
                   /\ UNCHANGED wire
              ELSE /\ wire' = [wire EXCEPT ![c] = delivered(@, sink_buf[c])]
                   /\ sink_buf' = [sink_buf EXCEPT ![c] = <<>>]
                   /\ UNCHANGED <<sent, nrowdesc>>
           /\ ops' = [ops EXCEPT ![c] = rest]
           /\ IF rest = <<>>
              THEN /\ state' = [state EXCEPT ![c] = state_after(cur[c], @)]
                   /\ pc' = [pc EXCEPT ![c] = "ready"]
                   /\ result' = [result EXCEPT ![c] = Ok]
                   /\ portal' = [portal EXCEPT ![c] = None]
              ELSE UNCHANGED <<state, pc, result, portal>>
    /\ UNCHANGED <<stmt_store, portal_store, cur, resp, described, replaced, nmsgs,
                   broken, tag_vars, enc_vars, fmt_vars, arc_vars>>

\* the outbound channel fails: the handler propagates the error with `?`; a
\* Sink that has failed accepts nothing afterwards
poll_sink_err(c) ==
    /\ pc[c] = "sink"
    /\ broken' = [broken EXCEPT ![c] = TRUE]
    /\ pc' = [pc EXCEPT ![c] = "ready"]
    /\ ops' = [ops EXCEPT ![c] = <<>>]
    /\ result' = [result EXCEPT ![c] = IoError]
    /\ portal' = [portal EXCEPT ![c] = None]
    /\ UNCHANGED <<state, stmt_store, portal_store, sink_buf, wire, cur, resp,
                   sent, described, replaced, nmsgs, nrowdesc,
                   tag_vars, enc_vars, fmt_vars, arc_vars>>

(***************************************************************************)
(* Tag and its conversion to CommandComplete (results.rs).                 *)
(***************************************************************************)
Commands == {"SELECT", "INSERT", "UPDATE", "COMMIT"}
TagRows == {None} \cup {Some(n) : n \in 0..MaxTagRows}

Digit(d) == CASE d = 0 -> "0" [] d = 1 -> "1" [] d = 2 -> "2" [] d = 3 -> "3"
              [] d = 4 -> "4" [] d = 5 -> "5" [] d = 6 -> "6" [] d = 7 -> "7"
              [] d = 8 -> "8" [] d = 9 -> "9"

\* Display for usize: the decimal digits, most significant first
RECURSIVE Display(_)
Display(n) == IF n < 10 THEN Digit(n) ELSE Display(n \div 10) \o Digit(n % 10)

\* the conversion with the count appended right after the command
CommandCompleteFromNoSpace(t) ==
    IF t.rows # None
    THEN t.command \o Display(t.rows[1])
    ELSE t.command

\* impl From<Tag> for CommandComplete: the tag string
CommandCompleteFrom(t) ==
    IF t.rows # None
    THEN t.command \o " " \o Display(t.rows[1])
    ELSE t.command

TagInit == tag = None /\ tag_call = None /\ complete = None

new_for_query(rows) ==
    /\ tag' = Some([command |-> "SELECT", rows |-> Some(rows)])
    /\ tag_call' = Some(<<"new_for_query", rows>>)
    /\ complete' = None
    /\ UNCHANGED <<conn_vars, enc_vars, fmt_vars, arc_vars>>

new_for_execution(command, rows) ==
    /\ tag' = Some([command |-> command, rows |-> rows])
    /\ tag_call' = Some(<<"new_for_execution", command, rows>>)
    /\ complete' = None
    /\ UNCHANGED <<conn_vars, enc_vars, fmt_vars, arc_vars>>

command_complete_from ==
    /\ tag # None
    /\ complete = None
    /\ complete' = Some(CommandCompleteFrom(tag[1]))
    /\ UNCHANGED <<tag, tag_call, conn_vars, enc_vars, fmt_vars, arc_vars>>

NextTag ==
    \/ \E n \in 0..MaxTagRows : new_for_query(n)
    \/ \E c \in Commands, r \in TagRows : new_for_execution(c, r)
    \/ command_complete_from

(***************************************************************************)
(* DataRowEncoder (results.rs).  A field value is an Option of an integer; *)
(* bytes are numbers 0..255.                                               *)
(***************************************************************************)
Text == "Text"
Binary == "Binary"
FieldFormat == {Text, Binary}
TypeSize(t) == IF t = "INT2" THEN 2 ELSE 4
FieldInfo(t, f) == [datatype |-> t, format |-> f]
FieldInfos == {FieldInfo("INT4", Text), FieldInfo("INT2", Binary)}
\* the type and format given to encode_field_with_type_and_format
CustomFields == {FieldInfo("INT4", Binary)}
\* calls made on one encoder: enough to overfill the longest schema
MaxCalls == MaxCols + 1
Values == {None, Some(7), Some(70000)}

RECURSIVE Pow(_, _)
Pow(b, e) == IF e = 0 THEN 1 ELSE b * Pow(b, e - 1)

\* the ASCII codes of the decimal digits of n
RECURSIVE DecimalBytes(_)
DecimalBytes(n) ==
    IF n < 10 THEN <<48 + n>> ELSE DecimalBytes(n \div 10) \o <<48 + (n % 10)>>

\* n in `size` bytes, most significant first
RECURSIVE BigEndian(_, _)
BigEndian(n, size) ==
    IF size = 0 THEN <<>> ELSE BigEndian(n \div 256, size - 1) \o <<n % 256>>

IsNullYes == "Yes"
IsNullNo == "No"
EncodeErr == "Err"
Outcome(r, bytes) == [is_null |-> r, out |-> bytes]

\* what a failing encoder may have appended before it failed
PartialWrites == {<<>>, <<0>>}

\* value.to_sql_text(data_type, out): the outcomes, with the bytes appended
to_sql_text(value, data_type) ==
    IF value = None THEN {Outcome(IsNullYes, <<>>)}
    ELSE {Outcome(IsNullNo, DecimalBytes(value[1]))}

\* value.to_sql(data_type, out): fails when the value does not fit the type
to_sql(value, data_type) ==
    IF value = None THEN {Outcome(IsNullYes, <<>>)}
    ELSE IF value[1] \div Pow(256, TypeSize(data_type) - 1) < 128
    THEN {Outcome(IsNullNo, BigEndian(value[1], TypeSize(data_type)))}
    ELSE {Outcome(EncodeErr, w) : w \in PartialWrites}

\* the dispatch on the format, in both encode functions
encode_value(value, data_type, format) ==
    IF format = Text THEN to_sql_text(value, data_type) ELSE to_sql(value, data_type)

\* DataRowEncoder::new
new(fields) ==
    [buffer |-> <<>>, field_buffer |-> <<>>, schema |-> fields, col_index |-> 0]

\* encode_field reading the first schema entry whatever the cursor
schema_at_first(enc) == enc.schema[1]

\* the schema entry encode_field reads; col_index counts from 0
schema_at(enc) == enc.schema[enc.col_index + 1]

\* both encode functions after the encoder returned: `?` leaves on an error,
\* else the field is pushed, the cursor advanced and the scratch buffer cleared
push_field(enc, o) ==
    LET written == enc.field_buffer \o o.out
    IN  IF o.is_null = EncodeErr
        THEN [enc EXCEPT !.field_buffer = written]
        ELSE [enc EXCEPT
                 !.buffer = Append(@, IF o.is_null = IsNullNo
                                      THEN Some(written) ELSE None),
                 !.col_index = @ + 1,
                 !.field_buffer = <<>>]

Call(f, value, o) == [fn |-> f, value |-> value, ok |-> o.is_null # EncodeErr]

encode_field(value) ==
    /\ enc_pc = "open"
    /\ Len(calls) < MaxCalls
    /\ IF encoder.col_index >= Len(encoder.schema)
       THEN \* index out of bounds: panic
            /\ enc_pc' = "panicked"
            /\ UNCHANGED <<encoder, calls>>
       ELSE \E o \in encode_value(value, schema_at(encoder).datatype,
                                  schema_at(encoder).format) :
                /\ encoder' = push_field(encoder, o)
                /\ calls' = Append(calls, Call("encode_field", value, o))
                /\ UNCHANGED enc_pc
    /\ UNCHANGED <<row, conn_vars, tag_vars, fmt_vars, arc_vars>>

encode_field_with_type_and_format(value, data_type, format) ==
    /\ enc_pc = "open"
    /\ Len(calls) < MaxCalls
    /\ \E o \in encode_value(value, data_type, format) :
           /\ encoder' = push_field(encoder, o)
           /\ calls' = Append(calls, Call("encode_field_with_type_and_format", value, o))
    /\ UNCHANGED <<enc_pc, row, conn_vars, tag_vars, fmt_vars, arc_vars>>

finish ==
    /\ enc_pc = "open"
    /\ encoder' = [encoder EXCEPT !.col_index = 0]
    /\ row' = Some(encoder.buffer)
    /\ enc_pc' = "finished"
    /\ UNCHANGED <<calls, conn_vars, tag_vars, fmt_vars, arc_vars>>

Schemas == SeqsUpTo(FieldInfos, MaxCols)

EncInit(fields) ==
    /\ encoder = new(fields)
    /\ enc_pc = "open"
    /\ row = None
    /\ calls = <<>>

NextEnc ==
    \/ \E v \in Values : encode_field(v)
    \/ \E v \in Values, fi \in CustomFields :
           encode_field_with_type_and_format(v, fi.datatype, fi.format)
    \/ finish

(***************************************************************************)
(* FieldFormat and its i16 format code (results.rs).                       *)
(***************************************************************************)
FORMAT_CODE_TEXT == 0
FORMAT_CODE_BINARY == 1
\* the values of an i16
I16 == -32768..32767

\* FieldFormat::value
FieldFormatValue(f) == IF f = Text THEN FORMAT_CODE_TEXT ELSE FORMAT_CODE_BINARY

\* parsing with every non-zero code taken as binary
FieldFormatFromNonZero(code) ==
    IF code # FORMAT_CODE_TEXT THEN Binary ELSE Text

\* FieldFormat::from
FieldFormatFrom(code) ==
    IF code = FORMAT_CODE_BINARY THEN Binary ELSE Text

\* no format and no code at hand
FmtIdle == fmt_in = None /\ fmt_code = None /\ fmt_out = None

\* a code read off the wire, or a format whose code is to be written
FmtInit ==
    /\ fmt_out = None
    /\ \/ fmt_in = None /\ fmt_code \in {Some(code) : code \in I16}
       \/ fmt_in \in {Some(f) : f \in FieldFormat} /\ fmt_code = None

\* f.value() on the format at hand
format_value ==
    /\ fmt_in # None
    /\ fmt_code = None
    /\ fmt_code' = Some(FieldFormatValue(fmt_in[1]))
    /\ UNCHANGED <<fmt_in, fmt_out, conn_vars, tag_vars, enc_vars, arc_vars>>

\* FieldFormat::from(code) on the code at hand
format_from ==
    /\ fmt_code # None
    /\ fmt_out = None
    /\ fmt_out' = Some(FieldFormatFrom(fmt_code[1]))
    /\ UNCHANGED <<fmt_in, fmt_code, conn_vars, tag_vars, enc_vars, arc_vars>>

NextFmt ==
    \/ format_value
    \/ format_from

(***************************************************************************)
(* The portal store with its sharing made explicit: an entry holds an      *)
(* Arc<Portal>, the address of a reference-counted allocation, and         *)
(* on_describe changes the flag through Arc::make_mut (query.rs).          *)
(***************************************************************************)
Addrs == 1..MaxArcs

\* the Arcs that point to the allocation: the store's entries and the holder's
strong_count(store, held, a) ==
    Cardinality({e \in store : e.value = a}) + (IF held = Some(a) THEN 1 ELSE 0)

\* dropping the last Arc of an allocation frees it
drop_unreferenced(heap, store, held) ==
    [a \in Addrs |-> IF strong_count(store, held, a) > 0 THEN heap[a] ELSE None]

HasFree(heap) == \E a \in Addrs : heap[a] = None
\* Arc::new / the clone of make_mut: a fresh allocation
alloc(heap) == CHOOSE a \in Addrs : heap[a] = None

\* a make_mut that never clones
make_mut_in_place(heap, a, count) == [heap |-> heap, at |-> a]

\* Arc::make_mut(&mut arc): the allocation itself when this Arc is the only
\* one, else a clone of it in a fresh allocation, to which the Arc now points
make_mut(heap, a, count) ==
    IF count = 1 THEN [heap |-> heap, at |-> a]
    ELSE [heap |-> [heap EXCEPT ![alloc(heap)] = heap[a]], at |-> alloc(heap)]

ArcCall(op, name, before) == Some([op |-> op, name |-> name, before |-> before])

\* on_bind for a statement of the given text: put(&id, Arc::new(portal))
on_bind_arc(message, text) ==
    /\ HasFree(arc_heap)
    /\ LET stmts == put_statement({}, Parse(message.statement_name, text))
           made == PortalTryNew(message, stmts)[1]
           a == alloc(arc_heap)
       IN  /\ arc_store' = put(arc_store, made.name, a)
           /\ arc_heap' = drop_unreferenced([arc_heap EXCEPT ![a] = Some(made)],
                                            arc_store', arc_held)
           /\ arc_call' = ArcCall("bind", made.name, None)
    /\ UNCHANGED <<arc_held, arc_seen, conn_vars, tag_vars, enc_vars, fmt_vars>>

\* another holder takes a snapshot: store.get(name) clones the Arc
hold_snapshot(name) ==
    /\ arc_held = None
    /\ get(arc_store, name) # None
    /\ arc_held' = get(arc_store, name)
    /\ arc_seen' = arc_heap[get(arc_store, name)[1]]
    /\ arc_call' = ArcCall("get", name, None)
    /\ UNCHANGED <<arc_heap, arc_store, conn_vars, tag_vars, enc_vars, fmt_vars>>

\* the holder drops its Arc
drop_snapshot ==
    /\ arc_held # None
    /\ arc_held' = None
    /\ arc_seen' = None
    /\ arc_heap' = drop_unreferenced(arc_heap, arc_store, None)
    /\ arc_call' = ArcCall("drop", DEFAULT_NAME, None)
    /\ UNCHANGED <<arc_store, conn_vars, tag_vars, enc_vars, fmt_vars>>

\* on_describe: get (a clone of the store's Arc), make_mut, set the flag, put
on_describe_arc(message) ==
    /\ HasFree(arc_heap)
    /\ LET portal_name == map_or_default(message.name)
           found == get(arc_store, portal_name)
       IN  IF found # None
           THEN LET m == make_mut(arc_heap, found[1],
                                  strong_count(arc_store, arc_held, found[1]) + 1)
                    flagged == [m.heap EXCEPT
                               ![m.at] = Some(set_row_description_requested(@[1], TRUE))]
                IN  /\ arc_store' = put(arc_store, portal_name, m.at)
                    /\ arc_heap' = drop_unreferenced(flagged, arc_store', arc_held)
                    /\ arc_call' = ArcCall("describe", portal_name, arc_heap[found[1]])
           ELSE /\ arc_call' = ArcCall("describe", portal_name, None)
                /\ UNCHANGED <<arc_heap, arc_store>>
    /\ UNCHANGED <<arc_held, arc_seen, conn_vars, tag_vars, enc_vars, fmt_vars>>

\* on_close of a portal: del(name)
on_close_arc(message) ==
    /\ arc_store' = close_portal(arc_store, message)
    /\ arc_heap' = drop_unreferenced(arc_heap, arc_store', arc_held)
    /\ arc_call' = ArcCall("close", map_or_default(message.name), None)
    /\ UNCHANGED <<arc_held, arc_seen, conn_vars, tag_vars, enc_vars, fmt_vars>>

NextArc ==
    \/ \E p \in OptNames, q \in Queries : on_bind_arc(Bind(p, None), q)
    \/ \E n \in Names : hold_snapshot(n)
    \/ drop_snapshot
    \/ \E t \in DescribeTargets, n \in OptNames : on_describe_arc(Describe(t, n))
    \/ \E n \in OptNames : on_close_arc(Close(TARGET_TYPE_BYTE_PORTAL, n))

\* no Arc allocated, an empty store, no holder
ArcIdle ==
    /\ arc_heap = [a \in Addrs |-> None]
    /\ arc_store = {}
    /\ arc_held = None
    /\ arc_seen = None
    /\ arc_call = None

(***************************************************************************)
(* One connection handling the messages of its frontend.                   *)
(***************************************************************************)
\* the frontend of the connection may send another message
MayHandle(c) == nmsgs[c] < MaxMsgs

Next ==
    \/ \E q \in SimpleQueries : MayHandle(1) /\ on_query(1, Query(q))
    \/ \E n \in OptNames, q \in Queries : MayHandle(1) /\ on_parse(1, Parse(n, q))
    \/ \E p \in OptNames, s \in OptNames : MayHandle(1) /\ on_bind(1, Bind(p, s))
    \/ \E n \in OptNames : MayHandle(1) /\ on_execute(1, Execute(n))
    \/ \E t \in DescribeTargets, n \in OptNames : MayHandle(1) /\ on_describe(1, Describe(t, n))
    \/ MayHandle(1) /\ on_sync(1, PgSync)
    \/ \E t \in TargetTypes, n \in OptNames : MayHandle(1) /\ on_close(1, Close(t, n))
    \/ \E r \in QueryResponse : do_query(1, r)
    \/ do_query_err(1)
    \/ poll_sink(1)
    \/ poll_sink_err(1)

Init == ConnInit /\ TagInit /\ EncInit(<<>>) /\ FmtIdle /\ ArcIdle

Spec == Init /\ [][Next]_vars

\* the extended-query conversation of one connection, with a callback that
\* may write to the client
NextPipelined ==
    \/ \E n \in OptNames, q \in Queries : MayHandle(1) /\ on_parse(1, Parse(n, q))
    \/ \E p \in OptNames, s \in OptNames : MayHandle(1) /\ on_bind(1, Bind(p, s))
    \/ \E n \in OptNames : MayHandle(1) /\ on_execute(1, Execute(n))
    \/ \E t \in DescribeTargets, n \in OptNames : MayHandle(1) /\ on_describe(1, Describe(t, n))
    \/ MayHandle(1) /\ on_sync(1, PgSync)
    \/ \E t \in TargetTypes, n \in OptNames : MayHandle(1) /\ on_close(1, Close(t, n))
    \/ \E r \in SharedResponses : do_query(1, r)
    \/ \E n \in Notices : do_query_notice(1, n)
    \/ do_query_err(1)
    \/ poll_sink(1)
    \/ poll_sink_err(1)

SpecPipelined == Init /\ [][NextPipelined]_vars

\* the frontend messages handled so far on the first n connections
RECURSIVE Handled(_)
Handled(n) == IF n = 0 THEN 0 ELSE nmsgs[n] + Handled(n - 1)
MayStart == Handled(NConns) < MaxShared

\* every connection handling the messages of its own frontend, their steps
\* interleaved; all of them use the unnamed statement and portal
NextConns ==
    \/ \E c \in Conns, q \in SimpleQueries : MayStart /\ on_query(c, Query(q))
    \/ \E c \in Conns, q \in Queries : MayStart /\ on_parse(c, Parse(None, q))
    \/ \E c \in Conns : MayStart /\ on_bind(c, Bind(None, None))
    \/ \E c \in Conns : MayStart /\ on_execute(c, Execute(None))
    \/ \E c \in Conns : MayStart /\ on_describe(c, Describe(TARGET_TYPE_BYTE_PORTAL, None))
    \/ \E c \in Conns : MayStart /\ on_sync(c, PgSync)
    \/ \E c \in Conns, t \in DescribeTargets : MayStart /\ on_close(c, Close(t, None))
    \/ \E c \in Conns, r \in SharedResponses : do_query(c, r)
    \/ \E c \in Conns : do_query_err(c)
    \/ \E c \in Conns : poll_sink(c)
    \/ \E c \in Conns : poll_sink_err(c)

SpecConns == Init /\ [][NextConns]_vars

\* one statement parsed, bound, described and executed over and over, all
\* under the default name
MayRepeat == nmsgs[1] < MaxRepeat

NextRepeat ==
    \/ \E q \in SimpleQueries : MayRepeat /\ on_parse(1, Parse(None, q))
    \/ MayRepeat /\ on_bind(1, Bind(None, None))
    \/ MayRepeat /\ on_execute(1, Execute(None))
    \/ \E t \in DescribeTargets : MayRepeat /\ on_describe(1, Describe(t, None))
    \/ MayRepeat /\ on_sync(1, PgSync)
    \/ \E t \in DescribeTargets : MayRepeat /\ on_close(1, Close(t, None))
    \/ \E r \in SharedResponses : do_query(1, r)
    \/ do_query_err(1)
    \/ poll_sink(1)
    \/ poll_sink_err(1)

SpecRepeat == Init /\ [][NextRepeat]_vars

\* Tags built and converted
SpecTag == Init /\ [][NextTag]_vars

\* an encoder built for any schema, fed fields and finished
InitEnc ==
    /\ ConnInit /\ TagInit /\ FmtIdle /\ ArcIdle
    /\ \E fields \in Schemas : EncInit(fields)

SpecEnc == InitEnc /\ [][NextEnc]_vars

\* portals bound, described and closed while another holder keeps a snapshot
SpecArc == Init /\ [][NextArc]_vars

\* format codes parsed and written
InitFmt == ConnInit /\ TagInit /\ EncInit(<<>>) /\ ArcIdle /\ FmtInit

SpecFmt == InitFmt /\ [][NextFmt]_vars

(***************************************************************************)
(* Properties.  Helpers first.                                             *)
(***************************************************************************)
IsPrefix(s, t) == Len(s) <= Len(t) /\ \A i \in 1..Len(s) : s[i] = t[i]
Last(s) == s[Len(s)]
Positions(s, kind) == {i \in 1..Len(s) : s[i][1] = kind}
IsReady(m) == m = <<"ReadyForQuery", "I">>

\* on_query is handling (or has last handled) a Query whose callback returned
\* a response of the given kind
QueryWith(c, kind) ==
    cur[c].type = "Query" /\ resp[c] # None /\ resp[c][1][1] = kind

\* the reply the protocol prescribes for a Data response with these rows
DataReply(rows) ==
    <<(<<"RowDescription">>)>>
    \o [i \in 1..Len(rows) |-> <<"DataRow", rows[i]>>]
    \o << <<"CommandComplete">>, <<"ReadyForQuery", "I">> >>

\* C1: for a Data response with n rows on_query emits at most, and with every
\* write accepted (it returns Ok) exactly, the 1 + n + 2 messages
\* RowDescription, the n DataRows in the order of the response's rows,
\* CommandComplete, ReadyForQuery(idle); all of them reach the frontend.
C1_DataReply ==
    \A c \in Conns :
        QueryWith(c, "Data") =>
            LET rows == resp[c][1][2]
            IN  /\ IsPrefix(sent[c], DataReply(rows))
                /\ result[c] = Ok =>
                       /\ sent[c] = DataReply(rows)
                       /\ Len(sent[c]) = 1 + Len(rows) + 2
                       /\ wire[c] = sent[c]

C1_Witness ==
    \E c \in Conns :
        /\ QueryWith(c, "Data")
        /\ result[c] = Ok
        /\ Len(resp[c][1][2]) = 2
        /\ resp[c][1][2][1] # resp[c][1][2][2]
        /\ Len(sent[c]) = 5

\* C2: for an Empty response on_query emits CommandComplete then
\* ReadyForQuery, for an Error response ErrorResponse then ReadyForQuery:
\* exactly these 2 messages when it returns Ok, and never a RowDescription
\* or a DataRow.
C2_NoRowsReply ==
    \A c \in Conns :
        (QueryWith(c, "Empty") \/ QueryWith(c, "Error")) =>
            LET first == IF resp[c][1][1] = "Empty"
                         THEN <<"CommandComplete">> ELSE <<"ErrorResponse">>
                expected == <<first, <<"ReadyForQuery", "I">> >>
            IN  /\ IsPrefix(sent[c], expected)
                /\ Positions(sent[c], "RowDescription") = {}
                /\ Positions(sent[c], "DataRow") = {}
                /\ result[c] = Ok => (sent[c] = expected /\ Len(sent[c]) = 2)

C2_Witness ==
    \E c \in Conns :
        /\ QueryWith(c, "Empty")
        /\ result[c] = Ok
        /\ sent[c] = << <<"CommandComplete">>, <<"ReadyForQuery", "I">> >>

\* C3 as stated: every cycle started by a Query message that has ended has
\* emitted exactly one ReadyForQuery, as its last message.
C3_EveryCycleEndsReady ==
    \A c \in Conns :
        (cur[c].type = "Query" /\ pc[c] = "ready") =>
            /\ Cardinality(Positions(sent[c], "ReadyForQuery")) = 1
            /\ IsReady(Last(sent[c]))

\* C3 amended: no message of a Query cycle is emitted after a ReadyForQuery,
\* and every cycle in which the callback returned a response and every write
\* was accepted (on_query returns Ok) has emitted exactly one ReadyForQuery,
\* as its last message, also for an Error response.
C3_ReadyForQueryLast ==
    \A c \in Conns :
        cur[c].type = "Query" =>
            /\ Positions(sent[c], "ReadyForQuery") \subseteq {Len(sent[c])}
            /\ result[c] = Ok =>
                   /\ resp[c] # None
                   /\ Positions(sent[c], "ReadyForQuery") = {Len(sent[c])}
                   /\ IsReady(Last(sent[c]))
                   /\ IsReady(Last(wire[c]))

C3_Witness ==
    \E c \in Conns :
        /\ QueryWith(c, "Error")
        /\ result[c] = Ok
        /\ IsReady(Last(sent[c]))
        /\ sent[c][1] = <<"ErrorResponse">>

\* the key a message's optional name stands for
Key(name) == IF name = <<>> THEN DEFAULT_NAME ELSE name[1]
Entries(store, n) == {e \in store : e.name = n}
ContentAt(store, n) == {e.value : e \in Entries(store, n)}
\* this step starts the handler of a frontend message of the given type
Handles(c, type) ==
    pc[c] = "ready" /\ nmsgs'[c] = nmsgs[c] + 1 /\ cur'[c].type = type

\* C4: on_execute on a name absent from the portal store (no name standing
\* for the default name) returns PortalNotFound(name) at once: do_query is
\* not invoked, nothing is fed to or flushed from the outbound channel, and
\* both stores are unchanged.
C4_ExecuteUnknownPortal ==
    [][\A c \in Conns :
          (/\ Handles(c, "Execute")
           /\ Entries(portal_store[c], Key(cur'[c].name)) = {})
          => /\ result'[c] = <<"PortalNotFound", Key(cur'[c].name)>>
             /\ pc'[c] = "ready"
             /\ resp'[c] = None
             /\ sent'[c] = <<>>
             /\ sink_buf'[c] = sink_buf[c]
             /\ wire'[c] = <<>>
             /\ stmt_store'[c] = stmt_store[c]
             /\ portal_store'[c] = portal_store[c]]_vars

C4_Witness ==
    \E c \in Conns :
        /\ cur[c] = Execute(None)
        /\ result[c] = <<"PortalNotFound", DEFAULT_NAME>>
        /\ Entries(portal_store[c], "a") # {}
        /\ Entries(portal_store[c], DEFAULT_NAME) = {}

\* C5 as stated: an Execute whose callback returned Data emits RowDescription
\* first when the portal has had a Describe since its Bind, and no
\* RowDescription at all when it has had none.
C5_RowDescriptionIffDescribed ==
    \A c \in Conns :
        (/\ cur[c].type = "Execute"
         /\ resp[c] # None
         /\ resp[c][1][1] = "Data"
         /\ result[c] = Ok)
        => IF Key(cur[c].name) \in described[c]
           THEN Positions(sent[c], "RowDescription") = {1}
           ELSE Positions(sent[c], "RowDescription") = {}

\* the reply on_query owes for the response the callback returned
QueryReply(r) ==
    IF r[1] = "Data" THEN DataReply(r[2])
    ELSE IF r[1] = "Empty"
    THEN << <<"CommandComplete">>, <<"ReadyForQuery", "I">> >>
    ELSE << <<"ErrorResponse">>, <<"ReadyForQuery", "I">> >>

C6_Inv ==
    \A c \in Conns :
        /\ state[c] \in {"ReadyForQuery", "QueryInProgress"}
        /\ (cur[c].type = "Query" /\ pc[c] # "ready") => state[c] = "QueryInProgress"
        /\ (cur[c].type = "Query" /\ result[c] = Ok) =>
               /\ state[c] = "ReadyForQuery"
               /\ sent[c] = QueryReply(resp[c][1])
               /\ sink_buf[c] = <<>>

C6_Step ==
    \A c \in Conns :
        /\ (state[c] # "QueryInProgress" /\ state'[c] = "QueryInProgress") =>
               /\ Handles(c, "Query")
               /\ pc'[c] = "do_query"
               /\ resp'[c] = None
        /\ (state[c] = "QueryInProgress" /\ state'[c] # "QueryInProgress") =>
               /\ cur[c].type = "Query"
               /\ state'[c] = "ReadyForQuery"
               /\ result'[c] = Ok
               /\ sent'[c] = QueryReply(resp[c][1])
               /\ sink_buf'[c] = <<>>
               /\ wire'[c] = sent'[c]

\* C6: the state is ReadyForQuery or QueryInProgress; on_query sets it to
\* QueryInProgress before the callback is invoked, it stays QueryInProgress
\* while the callback runs and the reply is emitted, it becomes ReadyForQuery
\* only in the step that completes the flush of the whole reply, and every
\* cycle whose reply is fully sent ends in ReadyForQuery.
C6_QueryStateCycle == []C6_Inv /\ [][C6_Step]_vars

C6_Witness ==
    \E c \in Conns :
        /\ QueryWith(c, "Data")
        /\ result[c] = Ok
        /\ state[c] = "ReadyForQuery"
        /\ Len(wire[c]) = 4
        /\ nmsgs[c] = 2

C7_Inv ==
    \A c \in Conns :
        /\ \A n \in Names :
               /\ Cardinality(Entries(stmt_store[c], n)) <= 1
               /\ Cardinality(Entries(portal_store[c], n)) <= 1
               /\ get(stmt_store[c], n) =
                      IF ContentAt(stmt_store[c], n) = {} THEN None
                      ELSE Some(CHOOSE v \in ContentAt(stmt_store[c], n) : TRUE)
        /\ cur[c].type = "Parse" =>
               ContentAt(stmt_store[c], Key(cur[c].name)) =
                   {[id |-> Key(cur[c].name), statement |-> cur[c].query]}

C7_Step ==
    \A c \in Conns : \A n \in Names :
        ContentAt(stmt_store'[c], n) =
            IF Handles(c, "Parse") /\ Key(cur'[c].name) = n
            THEN {[id |-> n, statement |-> cur'[c].query]}
            ELSE IF /\ Handles(c, "Close")
                    /\ cur'[c].target_type = "S"
                    /\ Key(cur'[c].name) = n
            THEN {}
            ELSE ContentAt(stmt_store[c], n)

\* C7: each store holds at most one entry per name; the statement store's
\* content under a name is that of the most recent Parse of that name (no
\* name standing for the default name) not followed by a Close of that
\* statement, and nothing otherwise: a Parse replaces the entry of its name
\* whatever was there, and leaves the entries of other names as they were.
C7_LastWriteWins == []C7_Inv /\ [][C7_Step]_vars

C7_Witness ==
    \E c \in Conns :
        /\ cur[c].type = "Parse"
        /\ cur[c].name = None
        /\ replaced[c] # None
        /\ replaced[c][1].statement # cur[c].query
        /\ Cardinality(Entries(stmt_store[c], DEFAULT_NAME)) = 1
        /\ Entries(stmt_store[c], "a") # {}

\* C8 as stated: whatever calls were made, a row that finish returns has as
\* many field slots as the encoder's schema has columns.
C8_FinishedRowMatchesSchema ==
    row # None => Len(row[1]) = Len(encoder.schema)

\* every call made on the encoder was an encode_field that succeeded
OnlyEncodeField ==
    \A i \in 1..Len(calls) : calls[i].fn = "encode_field" /\ calls[i].ok

\* the wire bytes of the values of the model, written out
TextOf(n) == IF n = 7 THEN <<55>> ELSE <<55, 48, 48, 48, 48>>
BinaryOf(n, t) ==
    IF t = "INT2" THEN <<0, 7>>
    ELSE IF n = 7 THEN <<0, 0, 0, 7>> ELSE <<0, 1, 17, 112>>
SlotOf(value, column) ==
    IF value = <<>> THEN <<>>
    ELSE IF column.format = "Text" THEN <<TextOf(value[1])>>
    ELSE <<BinaryOf(value[1], column.datatype)>>

\* C9: the cursor starts at 0 and counts the fields encoded; an encoder fed k
\* encode_field calls, all successful, for a schema of k columns returns from
\* finish a row of k slots, the i-th being null or exactly the bytes of the
\* i-th value in the type and format of column i, and its scratch buffer is
\* empty between the calls.
C9_RowFollowsSchema ==
    /\ enc_pc = "open" =>
           encoder.col_index = Len(SelectSeq(calls, LAMBDA k : k.ok))
    /\ (calls = <<>> /\ row = None) => encoder.col_index = 0
    /\ OnlyEncodeField =>
           /\ encoder.field_buffer = <<>>
           /\ Len(calls) <= Len(encoder.schema)
           /\ (row # None /\ Len(calls) = Len(encoder.schema)) =>
                  /\ Len(row[1]) = Len(encoder.schema)
                  /\ \A i \in 1..Len(calls) :
                         row[1][i] = SlotOf(calls[i].value, encoder.schema[i])

C9_Witness ==
    /\ row # None
    /\ OnlyEncodeField
    /\ Len(encoder.schema) = 3
    /\ Len(row[1]) = 3
    /\ encoder.schema[1].format = "Text"
    /\ encoder.schema[2].format = "Binary"
    /\ row[1][1] = <<<<55, 48, 48, 48, 48>>>>
    /\ row[1][2] = <<<<0, 7>>>>
    /\ row[1][3] = <<>>

\* C10: the text of the CommandComplete made from a Tag is the command, one
\* space and the decimal row count when the tag carries a count, and the
\* command alone when it carries none; new_for_query(n) makes the tag
\* SELECT with the count n.
C10_TagText ==
    /\ (tag # None /\ tag_call[1][1] = "new_for_query") =>
           tag[1] = [command |-> "SELECT", rows |-> <<tag_call[1][2]>>]
    /\ (tag # None /\ tag_call[1][1] = "new_for_execution") =>
           tag[1] = [command |-> tag_call[1][2], rows |-> tag_call[1][3]]
    /\ complete # None =>
           /\ tag[1].rows = <<>> => complete[1] = tag[1].command
           /\ tag[1].rows # <<>> =>
                  complete[1] = tag[1].command \o " " \o ToString(tag[1].rows[1])
           /\ tag_call[1] = <<"new_for_execution", "INSERT", <<100>> >> =>
                  complete[1] = "INSERT 100"
           /\ tag_call[1] = <<"new_for_execution", "COMMIT", <<>> >> =>
                  complete[1] = "COMMIT"
           /\ tag_call[1] = <<"new_for_query", 12>> => complete[1] = "SELECT 12"

C10_Witness ==
    /\ tag_call = <<(<<"new_for_execution", "INSERT", <<100>> >>)>>
    /\ complete = <<"INSERT 100">>

\* C11: FieldFormat::from returns Binary exactly for the code 1 and Text for
\* every other 16-bit code (0, a negative code, an unknown code), never
\* failing; the code value() gives for a format parses back to that format.
C11_FormatCode ==
    /\ fmt_out # None =>
           /\ fmt_code # None
           /\ fmt_out[1] \in {"Text", "Binary"}
           /\ fmt_out[1] = "Binary" <=> fmt_code[1] = 1
           /\ fmt_code[1] \in {0, 7, -1, -32768, 32767} => fmt_out[1] = "Text"
           /\ fmt_in # None => fmt_out[1] = fmt_in[1]
    /\ (fmt_in # None /\ fmt_code # None) =>
           fmt_code[1] = IF fmt_in[1] = "Binary" THEN 1 ELSE 0
    \* from is total: a code at hand can always be parsed
    /\ (fmt_code # None /\ fmt_out = None) => ENABLED format_from

C11_Witness ==
    /\ fmt_in = None
    /\ fmt_code = <<7>>
    /\ fmt_out = <<"Text">>

\* C12 as stated: a Describe of a statement succeeds exactly when a statement
\* of that name is in the statement store, and fails with a not-found
\* condition when none is, whatever the portal store holds.
C12_DescribeStatementLookup ==
    \A c \in Conns :
        (cur[c].type = "Describe" /\ cur[c].target_type = "S") =>
            IF Entries(stmt_store[c], Key(cur[c].name)) # {}
            THEN result[c] = Ok
            ELSE result[c][1] \in {"StatementNotFound", "PortalNotFound"}

\* the messages on_execute owes for a response, given the portal's flag
ExecuteReply(flag, r) ==
    IF r[1] = "Data"
    THEN (IF flag THEN <<(<<"RowDescription">>)>> ELSE <<>>)
         \o [i \in 1..Len(r[2]) |-> <<"DataRow", r[2][i]>>]
         \o <<(<<"CommandComplete">>)>>
    ELSE IF r[1] = "Empty" THEN <<(<<"CommandComplete">>)>>
    ELSE <<(<<"ErrorResponse">>)>>

\* C13: the handlers of Parse, Bind, Describe, Execute and Close never emit
\* a ReadyForQuery; in particular an Execute, for a Data, Empty or Error
\* response and with the portal's flag set or not, emits a prefix of its
\* reply, whose last message is the CommandComplete or the ErrorResponse.
C13_ExecuteNoReadyForQuery ==
    \A c \in Conns :
        /\ cur[c].type \in {"Parse", "Bind", "Describe", "Execute", "Close"} =>
               /\ Positions(sent[c], "ReadyForQuery") = {}
               /\ Positions(wire[c], "ReadyForQuery") = {}
        /\ (cur[c].type = "Execute" /\ resp[c] # None) =>
               /\ portal[c] # None =>
                      IsPrefix(sent[c],
                               ExecuteReply(portal[c][1].row_description_requested,
                                            resp[c][1]))
               /\ result[c] = Ok =>
                      /\ sent[c] # <<>>
                      /\ Last(sent[c])[1] \in {"CommandComplete", "ErrorResponse"}
                      /\ wire[c] = sent[c]

C13_Witness ==
    \E c \in Conns :
        /\ cur[c].type = "Execute"
        /\ result[c] = Ok
        /\ resp[c] # None
        /\ resp[c][1][1] = "Data"
        /\ sent[c] = << <<"RowDescription">>, <<"DataRow", "r1">>,
                        <<"CommandComplete">> >>
        /\ wire[c] = sent[c]

C14_Inv ==
    \A c \in Conns :
        (cur[c].type = "Sync" /\ result[c] = Ok) => sink_buf[c] = <<>>

C14_Step ==
    \A c \in Conns :
        \* the messages fed and not yet delivered leave in the order they came
        /\ \/ sink_buf'[c] = sink_buf[c] /\ wire'[c] \in {wire[c], <<>>}
           \/ /\ Len(sink_buf'[c]) = Len(sink_buf[c]) + 1
              /\ IsPrefix(sink_buf[c], sink_buf'[c])
              /\ wire'[c] = wire[c]
           \/ sink_buf'[c] = <<>> /\ wire'[c] = wire[c] \o sink_buf[c]
        \* the step that completes on_sync delivers the whole buffer
        /\ (cur[c].type = "Sync" /\ pc[c] = "sink" /\ result'[c] = Ok) =>
               /\ wire'[c] = sink_buf[c]
               /\ sink_buf'[c] = <<>>
        \* neither step of on_sync touches a store
        /\ (Handles(c, "Sync") \/ (cur[c].type = "Sync" /\ pc[c] = "sink")) =>
               /\ stmt_store'[c] = stmt_store[c]
               /\ portal_store'[c] = portal_store[c]

\* C14: when on_sync has returned Ok nothing is left in the outbound buffer:
\* the step that completes it hands the frontend every message buffered by
\* the handlers before it, in the order in which they were fed (buffered
\* messages never overtake each other), and neither store changes while
\* on_sync runs.
C14_SyncFlushesAll == []C14_Inv /\ [][C14_Step]_vars

C14_Witness ==
    \E c \in Conns :
        /\ cur[c].type = "Sync"
        /\ result[c] = Ok
        /\ sink_buf[c] = <<>>
        /\ wire[c] = << <<"NoticeResponse", "n1">>, <<"NoticeResponse", "n2">> >>
        /\ portal_store[c] # {}

\* the Portal the store holds under the name, as an Option
StoredPortal(name) ==
    IF Entries(arc_store, name) = {} THEN <<>>
    ELSE arc_heap[(CHOOSE e \in Entries(arc_store, name) : TRUE).value]

\* C15: a snapshot another holder got from the portal store keeps the value
\* it had when it was taken, its row_description_requested included,
\* whatever Describe, Bind or Close follows; after a Describe that found the
\* portal, the store's entry under the name has the flag set and equals the
\* entry before it in everything else.
C15_SnapshotUnchanged ==
    /\ \A e \in arc_store : arc_heap[e.value] # <<>>
    /\ arc_held # <<>> =>
           /\ arc_heap[arc_held[1]] # <<>>
           /\ arc_heap[arc_held[1]] = arc_seen
    /\ (arc_call # <<>> /\ arc_call[1].op = "describe" /\ arc_call[1].before # <<>>) =>
           LET before == arc_call[1].before[1]
               after == StoredPortal(arc_call[1].name)
           IN  /\ after # <<>>
               /\ after[1].row_description_requested = TRUE
               /\ [after[1] EXCEPT
                       !.row_description_requested = before.row_description_requested]
                      = before

C15_Witness ==
    /\ arc_held # <<>>
    /\ arc_seen[1].row_description_requested = FALSE
    /\ arc_call[1].op = "describe"
    /\ arc_call[1].name = arc_seen[1].name
    /\ arc_call[1].before = arc_seen
    /\ StoredPortal(arc_seen[1].name)[1].row_description_requested = TRUE
    /\ arc_heap[arc_held[1]][1].row_description_requested = FALSE

\* this step emits nothing and leaves the outbound channel as it was
NoMessage(c) ==
    /\ sent'[c] = <<>>
    /\ sink_buf'[c] = sink_buf[c]
    /\ wire'[c] = <<>>
    /\ pc'[c] = "ready"

\* C16: a Bind whose statement name (no name standing for the default name)
\* is absent from the statement store returns StatementNotFound, leaves the
\* portal store as it was and emits nothing; a Bind on a stored statement
\* returns Ok and leaves under the portal name one portal, made of that
\* statement with the flag unset, whatever was stored there before; the
\* portals of other names and the statement store are unchanged.
C16_BindLookup ==
    [][\A c \in Conns :
          Handles(c, "Bind") =>
              LET sname == Key(cur'[c].statement_name)
                  pname == Key(cur'[c].portal_name)
              IN  /\ NoMessage(c)
                  /\ stmt_store'[c] = stmt_store[c]
                  /\ \A n \in Names \ {pname} :
                         Entries(portal_store'[c], n) = Entries(portal_store[c], n)
                  /\ IF Entries(stmt_store[c], sname) = {}
                     THEN /\ result'[c] = <<"StatementNotFound", sname>>
                          /\ portal_store'[c] = portal_store[c]
                     ELSE /\ result'[c] = Ok
                          /\ ContentAt(portal_store'[c], pname) =
                                 {[name |-> pname,
                                   statement |-> s,
                                   row_description_requested |-> FALSE] :
                                      s \in ContentAt(stmt_store[c], sname)}
                          /\ Cardinality(Entries(portal_store'[c], pname)) = 1]_vars

\* a Bind has failed while a portal made of another statement text stays
\* stored under the name it asked for
C16_Witness ==
    \E c \in Conns :
        /\ cur[c].type = "Bind"
        /\ result[c] = <<"StatementNotFound", Key(cur[c].statement_name)>>
        /\ Entries(portal_store[c], Key(cur[c].portal_name)) # {}
        /\ Entries(stmt_store[c], Key(cur[c].statement_name)) = {}

\* C17: a Close returns Ok and emits nothing; it removes the entry of its
\* name from the statement store when its target is 'S' and from the portal
\* store when its target is 'P', and changes nothing else: the other store,
\* the entries of other names, and both stores when the name is absent or
\* the target is neither.  A portal whose statement was closed stays stored,
\* and an Execute of a stored portal reaches the callback whether or not its
\* statement is still stored.
C17_CloseRemovesOnlyNamed ==
    [][\A c \in Conns :
          /\ Handles(c, "Close") =>
                 LET n == Key(cur'[c].name)
                     t == cur'[c].target_type
                 IN  /\ result'[c] = Ok
                     /\ NoMessage(c)
                     /\ stmt_store'[c] =
                            IF t = "S" THEN stmt_store[c] \ Entries(stmt_store[c], n)
                            ELSE stmt_store[c]
                     /\ portal_store'[c] =
                            IF t = "P" THEN portal_store[c] \ Entries(portal_store[c], n)
                            ELSE portal_store[c]
          /\ (Handles(c, "Execute")
              /\ Entries(portal_store[c], Key(cur'[c].name)) # {}) =>
                 pc'[c] = "do_query"]_vars

\* a Close of a statement has left stored the portal bound from it
C17_Witness ==
    \E c \in Conns :
        /\ cur[c].type = "Close"
        /\ cur[c].target_type = "S"
        /\ result[c] = Ok
        /\ Entries(stmt_store[c], Key(cur[c].name)) = {}
        /\ \E e \in portal_store[c] : e.value.statement.id = Key(cur[c].name)

\* this step is a step of a handler of the connection
Acts(c) == nmsgs'[c] # nmsgs[c] \/ pc'[c] # pc[c] \/ ops'[c] # ops[c]

\* this step leaves everything of the connection as it was
Untouched(d) ==
    /\ stmt_store'[d] = stmt_store[d]
    /\ portal_store'[d] = portal_store[d]
    /\ state'[d] = state[d]
    /\ sink_buf'[d] = sink_buf[d]
    /\ wire'[d] = wire[d]
    /\ sent'[d] = sent[d]
    /\ result'[d] = result[d]
    /\ portal'[d] = portal[d]
    /\ ~Acts(d)

\* C18: under every interleaving of the handler steps of the connections, a
\* step of a handler of one connection (the start of the handler of a Query,
\* Parse, Bind, Describe, Execute, Sync or Close, the return of its callback,
\* a write) leaves the statement store, the portal store, the state and the
\* outbound messages of every other connection unchanged, and these change
\* in no other step.
C18_ConnectionsIndependent ==
    [][/\ \A c \in Conns : Acts(c) => \A d \in Conns \ {c} : Untouched(d)
       /\ (\A c \in Conns : ~Acts(c)) => \A d \in Conns : Untouched(d)]_vars

\* two connections with a handler in flight each, one in the middle of its
\* reply and holding a statement under the default name, the other, which
\* holds none, waiting for its callback
C18_Witness ==
    \E c \in Conns, d \in Conns :
        /\ c # d
        /\ pc[c] = "sink"
        /\ pc[d] = "do_query"
        /\ sent[c] # <<>>
        /\ ContentAt(stmt_store[c], DEFAULT_NAME) # {}
        /\ ContentAt(stmt_store[d], DEFAULT_NAME) = {}
        /\ state[c] = "QueryInProgress"
        /\ state[d] = "QueryInProgress"

\* a step of on_execute: its start, the return of its callback, a write
InExecute(c) ==
    Handles(c, "Execute") \/ (cur[c].type = "Execute" /\ pc[c] # "ready")

C19_Step ==
    \A c \in Conns :
        /\ InExecute(c) =>
               /\ portal_store'[c] = portal_store[c]
               /\ stmt_store'[c] = stmt_store[c]
        \* the flag of a stored portal changes only by a Describe (set), a
        \* Bind (a new portal) or a Close (removed)
        /\ portal_store'[c] # portal_store[c] =>
               (Handles(c, "Describe") \/ Handles(c, "Bind") \/ Handles(c, "Close"))
        /\ \A e \in portal_store[c] :
               (e.value.row_description_requested /\ e \notin portal_store'[c]) =>
                   (Handles(c, "Bind") \/ Handles(c, "Close"))

C19_Inv ==
    \A c \in Conns :
        (cur[c].type = "Execute" /\ result[c][1] # "PortalNotFound") =>
            \* the executed portal is still stored, with the flag it had
            /\ Cardinality(Entries(portal_store[c], Key(cur[c].name))) = 1
            /\ portal[c] # <<>> => portal[c][1] \in ContentAt(portal_store[c], Key(cur[c].name))
            /\ (resp[c] # <<>> /\ resp[c][1][1] = "Data" /\ result[c] = Ok) =>
                   \A p \in ContentAt(portal_store[c], Key(cur[c].name)) :
                       IF p.row_description_requested
                       THEN Positions(sent[c], "RowDescription") = {1}
                       ELSE Positions(sent[c], "RowDescription") = {}

\* C19: no step of on_execute changes the portal store (or the statement
\* store): the executed portal stays stored with its flag, a stored portal's
\* flag is lost only by a Bind or a Close, and every Execute that returns
\* Data on a portal whose flag is set emits RowDescription first, however
\* many Executes came before.
C19_ExecuteKeepsPortal == []C19_Inv /\ [][C19_Step]_vars

\* the second Execute in a row of a portal described once has sent
\* RowDescription again
C19_Witness ==
    \E c \in Conns :
        /\ cur[c].type = "Execute"
        /\ result[c] = Ok
        /\ nrowdesc[c] = 2
        /\ nmsgs[c] = 5
        /\ sent[c][1] = <<"RowDescription">>
        /\ \E e \in portal_store[c] : e.value.row_description_requested

C20_Inv ==
    \A c \in Conns :
        cur[c].type = "Query" =>
            /\ result[c] = ApiError =>
                   /\ resp[c] = <<>>
                   /\ sent[c] = <<>>
                   /\ wire[c] = <<>>
                   /\ state[c] = "QueryInProgress"
            /\ result[c] = IoError =>
                   /\ resp[c] # <<>>
                   /\ IsPrefix(sent[c], QueryReply(resp[c][1]))
                   /\ wire[c] = <<>>
                   /\ state[c] = "QueryInProgress"

C20_Step ==
    \A c \in Conns :
        (cur[c].type = "Query" /\ result[c] \in {ApiError, IoError}) =>
            \/ nmsgs'[c] = nmsgs[c] + 1
            \/ sent'[c] = sent[c] /\ wire'[c] = wire[c] /\ state'[c] = state[c]

\* C20: when the callback of on_query fails, on_query returns the failure
\* having emitted nothing (no ErrorResponse, no ReadyForQuery) and the state
\* stays QueryInProgress; when a write of the reply fails, on_query returns
\* the failure, the state stays QueryInProgress, what was emitted is a
\* prefix of the reply, none of it has reached the frontend, and nothing
\* more of the cycle is emitted.
C20_FailureLeavesInProgress == []C20_Inv /\ [][C20_Step]_vars

\* a write failed after the RowDescription and a row had been fed
C20_Witness ==
    \E c \in Conns :
        /\ cur[c].type = "Query"
        /\ result[c] = IoError
        /\ state[c] = "QueryInProgress"
        /\ sent[c] = << <<"RowDescription">>, <<"DataRow", "r2">> >>
        /\ Len(resp[c][1][2]) = 2

====
